---- MODULE Spec2Model ----
(***************************************************************************)
(* Model of modelGenerator.ts: the prompt -> image -> 3D model pipeline.   *)
(* The file holds two variants of the pipeline: variant 1 (lines 1-173)    *)
(* optimizes the prompt through a chat-completion endpoint first, variant  *)
(* 2 (lines 175-314) prefixes a static system prompt instead.              *)
(*                                                                         *)
(* Strings are sequences of one-character strings, so that trim, replace   *)
(* and substring are computed character by character.                      *)
(***************************************************************************)
EXTENDS Integers, Sequences, FiniteSets, TLC

----------------------------------------------------------------------------
(* Bounds of the model *)

\* number of callers of generate3DModel, each with one invocation at a time
NumCalls == 2

\* longest word placed before and after the filler of a sanitizer input
MaxWord == 2

----------------------------------------------------------------------------
(* Strings *)

Lower == {"a", "b", "c", "d", "e", "f", "g", "h", "i", "j", "k", "l", "m",
          "n", "o", "p", "q", "r", "s", "t", "u", "v", "w", "x", "y", "z"}
Upper == {"A", "B", "C", "D", "E", "F", "G", "H", "I", "J", "K", "L", "M",
          "N", "O", "P", "Q", "R", "S", "T", "U", "V", "W", "X", "Y", "Z"}
Digit == {"0", "1", "2", "3", "4", "5", "6", "7", "8", "9"}

\* the characters String.prototype.trim removes (those the inputs use)
WhiteSpace == {" ", "\t", "\n", "\r"}

\* the length sanitizeFileName cuts the name to
MaxFileName == 20

RECURSIVE trimStart(_)
trimStart(s) ==
    IF s # <<>> /\ Head(s) \in WhiteSpace THEN trimStart(Tail(s)) ELSE s

RECURSIVE trimEnd(_)
trimEnd(s) ==
    IF s # <<>> /\ s[Len(s)] \in WhiteSpace
    THEN trimEnd(SubSeq(s, 1, Len(s) - 1))
    ELSE s

\* String.prototype.trim
trim(s) == trimEnd(trimStart(s))

\* the character class [^a-zA-Z0-9]
NonAlnum(c) == c \notin (Lower \cup Upper \cup Digit)

\* s.replace(/[^a-zA-Z0-9]/g, '_')
replaceNonAlnum(s) == [k \in 1..Len(s) |-> IF NonAlnum(s[k]) THEN "_" ELSE s[k]]

\* s.substring(0, n)
substring(s, n) == SubSeq(s, 1, IF Len(s) < n THEN Len(s) ELSE n)

\* a slip: the name is cut before the prompt is trimmed
sanitizeFileName_CutFirst(input) ==
    replaceNonAlnum(trim(substring(input, MaxFileName)))

sanitizeFileName(input) == substring(replaceNonAlnum(trim(input)), MaxFileName)

\* `gen_${sanitizeFileName(prompt)}.png`, resolved in __dirname
PngPath(prompt) ==
    <<"g", "e", "n", "_">> \o sanitizeFileName(prompt) \o <<".", "p", "n", "g">>

\* a slip: the extension of the image is kept for the model
GlbPath_Png(prompt) ==
    <<"g", "e", "n", "_">> \o sanitizeFileName(prompt) \o <<".", "p", "n", "g">>

\* a slip: the name of the model is made from the untrimmed prompt
GlbPath_Untrimmed(prompt) ==
    <<"g", "e", "n", "_">> \o substring(replaceNonAlnum(prompt), MaxFileName)
        \o <<".", "g", "l", "b">>

\* `gen_${sanitizeFileName(prompt)}.glb`, resolved in __dirname
GlbPath(prompt) ==
    <<"g", "e", "n", "_">> \o sanitizeFileName(prompt) \o <<".", "g", "l", "b">>

----------------------------------------------------------------------------
(* Inputs *)

Calls == 1..NumCalls

\* the prompts a caller passes; the first two sanitize to the same name,
\* the third is longer than MaxFileName
Prompts ==
    { <<"a", " ", "c", "u", "b", "e">>,
      <<" ", "a", "-", "c", "u", "b", "e", "\n">>,
      <<"a", " ", "f", "r", "i", "e", "n", "d", "l", "y", " ", "s", "q", "u",
        "i", "r", "r", "e", "l", " ", "w", "i", "t", "h">> }

\* contents of promptModifier_ImageGenerator.txt and system-prompt.txt
promptModifierImage == <<"3", "D", ":">>
systemPrompt == <<"i", "s", "o", "\n">>

\* message contents the chat-completion endpoint may return
Contents ==
    { <<" ", "\t", "l", "o", "w", "-", "p", "o", "l", "y", " ", "c", "u", "b", "e", " ", "\n">>,
      <<"c", "u", "b", "e">> }

\* bodies of the binary endpoints
ImageBytes == {"png-X", "png-Y"}
ModelBytes == {"glb-X", "glb-Y"}
ErrorBodies == {"bad request"}

\* bodies of a failed chat completion: with an error message, with an empty
\* one, without an error object
ChatErrorBodies ==
    { [error |-> <<[message |-> "quota exceeded"]>>],
      [error |-> <<[message |-> ""]>>],
      [error |-> <<>>] }

OK == 200
FailStatuses == {204, 500}

\* A settled axios.post: the HTTP response received, if any, and whether the
\* promise resolved with it.  The default validateStatus rejects a response
\* outside 2xx; a stubbed client or another validateStatus resolves with it.
Resolved(status, data) ==
    [response |-> <<[status |-> status, data |-> data]>>, resolved |-> TRUE]
Rejected(status, data) ==
    [response |-> <<[status |-> status, data |-> data]>>, resolved |-> FALSE]
NoResponse == [response |-> <<>>, resolved |-> FALSE]

ChatOutcomes ==
    { Resolved(OK, [choices |-> <<[message |-> [content |-> c]]>>]) : c \in Contents }
    \cup { Resolved(500, d) : d \in ChatErrorBodies }
    \cup { Resolved(204, [error |-> <<>>]),
           Rejected(500, [error |-> <<[message |-> "quota exceeded"]>>]),
           NoResponse }

ImageOutcomes ==
    { Resolved(OK, b) : b \in ImageBytes }
    \cup { Resolved(s, b) : s \in FailStatuses, b \in ErrorBodies }
    \cup { Rejected(500, b) : b \in ErrorBodies }
    \cup { NoResponse }

ModelOutcomes ==
    { Resolved(OK, b) : b \in ModelBytes }
    \cup { Resolved(s, b) : s \in FailStatuses, b \in ErrorBodies }
    \cup { Rejected(500, b) : b \in ErrorBodies }
    \cup { NoResponse }

----------------------------------------------------------------------------
(* Errors and console output *)

\* an Error object; status and body are what its message interpolates
Err(name, text, status, body) ==
    [name |-> name, text |-> text, status |-> status, body |-> body]

\* the error axios.post rejects with
AxiosError(o) ==
    IF o.response = <<>>
    THEN Err("AxiosError", "Network Error", {}, {})
    ELSE Err("AxiosError", "Request failed with status code",
             {o.response[1].status}, {})

\* throw new Error(response.data.error.message || "Unknown error occurred")
ChatError(data) ==
    IF data.error = <<>>
    THEN Err("TypeError", "Cannot read properties of undefined", {}, {})
    ELSE IF data.error[1].message = ""
         THEN Err("Error", "Unknown error occurred", {}, {})
         ELSE Err("Error", data.error[1].message, {}, {})

\* a slip: the body of the response is left out of the message
ImageError_NoBody(status, data) ==
    Err("Error", "Image generation failed", {status}, {})

\* throw new Error(`Image generation failed: ${response.status} - ${response.data.toString()}`)
ImageError(status, data) ==
    Err("Error", "Image generation failed", {status}, {data})

\* throw new Error(`3D model generation failed: ${response.status} - ${response.data.toString()}`)
ModelError(status, data) ==
    Err("Error", "3D model generation failed", {status}, {data})

\* console.error(label, error) of a catch block
CatchLog(label, e) == [label |-> label, status |-> {}, error |-> <<e>>]

\* console.error(`OpenAI API call failed with status: ${response.status}`)
StatusLog(status) ==
    [label |-> "OpenAI API call failed with status", status |-> {status},
     error |-> <<>>]

----------------------------------------------------------------------------
(* The three stage functions, from the point where their axios.post settles *)

\* optimizePrompt: whether the try block throws on the settled request
OptimizeThrows(o) == ~o.resolved \/ ~(o.response[1].status = OK)

\* a slip: the content is returned as it came
OptimizedPrompt_Raw(o) == o.response[1].data.choices[1].message.content

\* optimizePrompt: the value returned
OptimizedPrompt(o) == trim(o.response[1].data.choices[1].message.content)

\* optimizePrompt: the error thrown in the try block
OptimizeThrown(o) ==
    IF ~o.resolved THEN AxiosError(o) ELSE ChatError(o.response[1].data)

\* optimizePrompt: what it prints on the way out with an error
OptimizeLog(o) ==
    (IF o.resolved THEN <<StatusLog(o.response[1].status)>> ELSE <<>>)
    \o <<CatchLog("Error optimizing prompt:", OptimizeThrown(o))>>

\* a slip: any answer that axios resolves with is taken for a success
ImageThrows_Resolved(o) == ~o.resolved

\* generateImage: whether the try block throws on the settled request
ImageThrows(o) == ~o.resolved \/ ~(o.response[1].status = OK)

\* generateImage: the error thrown in the try block
ImageThrown(o) ==
    IF ~o.resolved THEN AxiosError(o)
    ELSE ImageError(o.response[1].status, o.response[1].data)

\* generateImage: what an error of the optimizer prints while it passes
\* through generateImage (the call of optimizePrompt is outside the try)
ImageLogOfOptimizer(e) == <<>>

\* generateImage: what it prints on the way out with an error of its own
ImageLog(e) == <<CatchLog("Error generating image:", e)>>

\* a slip: any answer that axios resolves with is taken for a success
ModelThrows_Resolved(o) == ~o.resolved

\* generate3DModel: whether the try block throws on its settled request
ModelThrows(o) == ~o.resolved \/ ~(o.response[1].status = OK)

\* generate3DModel: the error thrown in the try block by its own request
ModelThrown(o) ==
    IF ~o.resolved THEN AxiosError(o)
    ELSE ModelError(o.response[1].status, o.response[1].data)

\* generate3DModel: what its catch block prints
ModelLog(e) == <<CatchLog("Error generating 3D model:", e)>>

\* a slip: the catch block throws an error of its own
Rethrown_Wrapped(e) == Err("Error", "3D model generation failed", {}, {})

\* generate3DModel: the error its catch block rethrows
Rethrown(e) == e

\* fs.writeFileSync(path, Buffer.from(data)) on the directory dir
writeFileSync(dir, path, data) ==
    [p \in DOMAIN dir \cup {path} |-> IF p = path THEN data ELSE dir[p]]

\* history of a write: what it wrote and what it replaced, if anything
WriteRecord(dir, by, path, data) ==
    [path |-> path, data |-> data,
     replaced |-> IF path \in DOMAIN dir
                  THEN <<[data |-> dir[path], by |-> by[path]]>>
                  ELSE <<>>]

\* the requests of the three endpoints
ChatRequest(modifier, inputPrompt) ==
    [endpoint |-> "chat", system |-> modifier, prompt |-> inputPrompt,
     image |-> <<>>]
ImageRequest(p) ==
    [endpoint |-> "image", system |-> <<>>, prompt |-> p, image |-> <<>>]
ModelRequest(path) ==
    [endpoint |-> "3d", system |-> <<>>, prompt |-> <<>>, image |-> path]

\* variant 2: `${systemPrompt.trim()} ${prompt}`
FullPrompt(p) == trim(systemPrompt) \o <<" ">> \o p

----------------------------------------------------------------------------
(* State *)

VARIABLES
    variant,          \* which of the two variants of the file runs
    files,            \* the directory: path -> content
    author,           \* history: path -> the prompt of the invocation that wrote it
    pc,               \* where each invocation of generate3DModel stands
    prompt,           \* its argument
    optimizedPrompt,  \* generateImage's optimizedPrompt, once assigned
    inputImagePath,   \* generate3DModel's inputImagePath, once assigned
    uploaded,         \* what the read stream of inputImagePath delivered
    returned,         \* the value the invocation resolved with
    thrown,           \* the error the invocation rejected with
    reqs,             \* the requests it made, in order
    resps,            \* how they settled, in order
    writes,           \* the files it wrote, in order
    log,              \* its console.error output
    sanIn,            \* an input of sanitizeFileName
    sanOut            \* the result for it

callVars == <<pc, prompt, optimizedPrompt, inputImagePath, uploaded, returned,
              thrown, reqs, resps, writes, log>>
sanVars == <<sanIn, sanOut>>
vars == <<variant, files, author, callVars, sanVars>>

InitCalls ==
    /\ files = <<>>
    /\ author = <<>>
    /\ pc = [i \in Calls |-> "idle"]
    /\ prompt = [i \in Calls |-> <<>>]
    /\ optimizedPrompt = [i \in Calls |-> <<>>]
    /\ inputImagePath = [i \in Calls |-> <<>>]
    /\ uploaded = [i \in Calls |-> <<>>]
    /\ returned = [i \in Calls |-> <<>>]
    /\ thrown = [i \in Calls |-> <<>>]
    /\ reqs = [i \in Calls |-> <<>>]
    /\ resps = [i \in Calls |-> <<>>]
    /\ writes = [i \in Calls |-> <<>>]
    /\ log = [i \in Calls |-> <<>>]

Init ==
    /\ variant \in {1, 2}
    /\ InitCalls
    /\ sanIn = <<>>
    /\ sanOut = <<>>

Settled(i) == pc[i] \in {"resolved", "rejected"}

\* the invocation rejects: generate3DModel's catch block logs and rethrows
Reject(i, o, e, printed) ==
    /\ pc' = [pc EXCEPT ![i] = "rejected"]
    /\ resps' = [resps EXCEPT ![i] = Append(@, o)]
    /\ log' = [log EXCEPT ![i] = @ \o printed \o ModelLog(e)]
    /\ thrown' = [thrown EXCEPT ![i] = <<Rethrown(e)>>]
    /\ UNCHANGED <<variant, files, author, prompt, optimizedPrompt, inputImagePath,
                   uploaded, returned, reqs, writes, sanVars>>

\* generate3DModel(p) is called: variant 1 runs into optimizePrompt's
\* request, variant 2 into generateImage's.  Nothing of an earlier invocation
\* of the caller is kept but the files.
Generate3DModel(i, p) ==
    /\ pc[i] \in {"idle", "resolved", "rejected"}
    /\ prompt' = [prompt EXCEPT ![i] = p]
    /\ IF variant = 1
       THEN /\ reqs' = [reqs EXCEPT ![i] = <<ChatRequest(promptModifierImage, p)>>]
            /\ pc' = [pc EXCEPT ![i] = "optimizing"]
       ELSE /\ reqs' = [reqs EXCEPT ![i] = <<ImageRequest(FullPrompt(p))>>]
            /\ pc' = [pc EXCEPT ![i] = "imaging"]
    /\ optimizedPrompt' = [optimizedPrompt EXCEPT ![i] = <<>>]
    /\ inputImagePath' = [inputImagePath EXCEPT ![i] = <<>>]
    /\ uploaded' = [uploaded EXCEPT ![i] = <<>>]
    /\ returned' = [returned EXCEPT ![i] = <<>>]
    /\ thrown' = [thrown EXCEPT ![i] = <<>>]
    /\ resps' = [resps EXCEPT ![i] = <<>>]
    /\ writes' = [writes EXCEPT ![i] = <<>>]
    /\ log' = [log EXCEPT ![i] = <<>>]
    /\ UNCHANGED <<variant, files, author, sanVars>>

\* the chat request settles: optimizePrompt returns into generateImage,
\* which posts the image request, or throws through generateImage into
\* generate3DModel's catch block
OptimizePrompt(i, o) ==
    /\ pc[i] = "optimizing"
    /\ IF OptimizeThrows(o)
       THEN Reject(i, o, OptimizeThrown(o),
                   OptimizeLog(o) \o ImageLogOfOptimizer(OptimizeThrown(o)))
       ELSE /\ optimizedPrompt' = [optimizedPrompt EXCEPT ![i] = <<OptimizedPrompt(o)>>]
            /\ reqs' = [reqs EXCEPT ![i] = Append(@, ImageRequest(OptimizedPrompt(o)))]
            /\ resps' = [resps EXCEPT ![i] = Append(@, o)]
            /\ pc' = [pc EXCEPT ![i] = "imaging"]
            /\ UNCHANGED <<variant, files, author, prompt, inputImagePath, uploaded,
                           returned, thrown, writes, log, sanVars>>

\* the image request settles: generateImage writes the .png and returns its
\* path to generate3DModel, which opens a read stream on it and posts the 3D
\* request, or throws
GenerateImage(i, o) ==
    /\ pc[i] = "imaging"
    /\ IF ImageThrows(o)
       THEN Reject(i, o, ImageThrown(o), ImageLog(ImageThrown(o)))
       ELSE LET imagePath == PngPath(prompt[i])
                data == o.response[1].data
            IN  /\ files' = writeFileSync(files, imagePath, data)
                /\ writes' = [writes EXCEPT ![i] =
                                  Append(@, WriteRecord(files, author, imagePath, data))]
                /\ author' = writeFileSync(author, imagePath, prompt[i])
                /\ inputImagePath' = [inputImagePath EXCEPT ![i] = <<imagePath>>]
                /\ reqs' = [reqs EXCEPT ![i] = Append(@, ModelRequest(imagePath))]
                /\ resps' = [resps EXCEPT ![i] = Append(@, o)]
                /\ pc' = [pc EXCEPT ![i] = "uploading"]
                /\ UNCHANGED <<variant, prompt, optimizedPrompt, uploaded,
                               returned, thrown, log, sanVars>>

\* the form's read stream delivers the file at inputImagePath to the request
ReadStream(i) ==
    /\ pc[i] = "uploading"
    /\ uploaded' = [uploaded EXCEPT ![i] = <<files[inputImagePath[i][1]]>>]
    /\ pc' = [pc EXCEPT ![i] = "modelling"]
    /\ UNCHANGED <<variant, files, author, prompt, optimizedPrompt, inputImagePath,
                   returned, thrown, reqs, resps, writes, log, sanVars>>

\* the 3D request settles: generate3DModel writes the .glb and returns its
\* path, or throws.  Only a transport failure settles it before the upload.
Generate3DModelSettles(i, o) ==
    /\ \/ pc[i] = "modelling"
       \/ pc[i] = "uploading" /\ o = NoResponse
    /\ IF ModelThrows(o)
       THEN Reject(i, o, ModelThrown(o), <<>>)
       ELSE LET outputPath == GlbPath(prompt[i])
                data == o.response[1].data
            IN  /\ files' = writeFileSync(files, outputPath, data)
                /\ writes' = [writes EXCEPT ![i] =
                                  Append(@, WriteRecord(files, author, outputPath, data))]
                /\ author' = writeFileSync(author, outputPath, prompt[i])
                /\ returned' = [returned EXCEPT ![i] = <<outputPath>>]
                /\ resps' = [resps EXCEPT ![i] = Append(@, o)]
                /\ pc' = [pc EXCEPT ![i] = "resolved"]
                /\ UNCHANGED <<variant, prompt, optimizedPrompt, inputImagePath,
                               uploaded, thrown, reqs, log, sanVars>>

\* a caller invokes generate3DModel
Invoke(i) == \E p \in Prompts : Generate3DModel(i, p)

\* a request of invocation i settles, or its read stream delivers
Settle(i) ==
    \/ \E o \in ChatOutcomes : OptimizePrompt(i, o)
    \/ \E o \in ImageOutcomes : GenerateImage(i, o)
    \/ ReadStream(i)
    \/ \E o \in ModelOutcomes : Generate3DModelSettles(i, o)

\* One caller, as the file's own main block is: an invocation at a time, the
\* next one called after the one before has settled, any number of times.
Next == Invoke(1) \/ Settle(1)

Spec == Init /\ [][Next]_vars

\* generate3DModel is exported: callers may have their invocations overlap.
\* Each caller invokes it once.
NextOverlap ==
    \E i \in Calls :
        \/ pc[i] = "idle" /\ Invoke(i)
        \/ Settle(i)

SpecOverlap == Init /\ [][NextOverlap]_vars

----------------------------------------------------------------------------
(* sanitizeFileName on its own *)

\* the characters the inputs are made of
SanChars == {"a", "Z", "7", " ", "\n", "-"}

\* the words over SanChars of at most n characters
Words(n) == UNION { [1..k -> SanChars] : k \in 0..n }

\* k characters of filler
Fill(k) == [j \in 1..k |-> "x"]

\* inputs around the length the name is cut to
SanInputs ==
    { w1 \o Fill(k) \o w2 :
        w1 \in Words(MaxWord), w2 \in Words(MaxWord),
        k \in {0, MaxFileName - 2, MaxFileName - 1, MaxFileName} }

InitSan ==
    /\ variant = 1
    /\ InitCalls
    /\ sanIn \in SanInputs
    /\ sanOut = <<>>

Sanitize ==
    /\ sanOut = <<>>
    /\ sanOut' = <<sanitizeFileName(sanIn)>>
    /\ UNCHANGED <<variant, files, author, callVars, sanIn>>

SpecSanitize == InitSan /\ [][Sanitize]_vars

----------------------------------------------------------------------------
(* Claims *)

\* the positions of s that hold no white space
Inked(s) == { k \in 1..Len(s) : s[k] \notin WhiteSpace }

Least(S) == CHOOSE k \in S : \A m \in S : k <= m
Greatest(S) == CHOOSE k \in S : \A m \in S : m <= k

\* s without its leading and trailing white space
Trimmed(s) ==
    IF Inked(s) = {} THEN <<>> ELSE SubSeq(s, Least(Inked(s)), Greatest(Inked(s)))

\* C7: the result of sanitizeFileName is the first 20 characters of the
\* trimmed prompt with every character outside a-z, A-Z, 0-9 replaced by
\* '_': it has at most 20 characters, all of them alphanumeric or '_', and is
\* a function of the prompt alone.
C7_Sanitized ==
    sanOut # <<>> =>
        LET out == sanOut[1]
            t == Trimmed(sanIn)
        IN  /\ Len(out) = (IF Len(t) < 20 THEN Len(t) ELSE 20)
            /\ Len(out) <= 20
            /\ \A k \in 1..Len(out) :
                   /\ out[k] = (IF t[k] \in Lower \cup Upper \cup Digit
                                THEN t[k] ELSE "_")
                   /\ out[k] \in Lower \cup Upper \cup Digit \cup {"_"}

\* C7 witness: a prompt with leading white space, longer than 20 characters
\* once trimmed, with a character that is replaced
C7_Witness ==
    /\ sanOut # <<>>
    /\ sanIn # <<>>
    /\ sanIn[1] \in WhiteSpace
    /\ Len(Trimmed(sanIn)) > 20
    /\ Len(sanOut[1]) = 20
    /\ \E k \in 1..20 : sanOut[1][k] = "_" /\ Trimmed(sanIn)[k] = "-"

----------------------------------------------------------------------------
(* What an invocation asked and was answered *)

Requested(i, ep) == \E k \in 1..Len(reqs[i]) : reqs[i][k].endpoint = ep

\* the request to ep has settled (the k-th outcome settles the k-th request)
Answered(i, ep) == \E k \in 1..Len(resps[i]) : reqs[i][k].endpoint = ep

Answer(i, ep) ==
    resps[i][CHOOSE k \in 1..Len(resps[i]) : reqs[i][k].endpoint = ep]

\* the endpoint sent a response, and its status is s
HasStatus(o, s) == o.response # <<>> /\ o.response[1].status = s

\* the endpoint sent a response, and its status is not 200
Failed(o) == o.response # <<>> /\ o.response[1].status # 200

\* the file names of an invocation
PngOf(i) == <<"g", "e", "n", "_">> \o sanitizeFileName(prompt[i]) \o <<".", "p", "n", "g">>
GlbOf(i) == <<"g", "e", "n", "_">> \o sanitizeFileName(prompt[i]) \o <<".", "g", "l", "b">>

\* C1: when the optimizer and the image stage succeeded and the 3D endpoint
\* answers 500, the invocation rejects with an error that names status 500,
\* the .png of the image stage is on disk with the content it was written
\* with, and the invocation writes no .glb.
C1_ModelFailureKeepsImage ==
    \A i \in Calls :
        (Answered(i, "3d") /\ HasStatus(Answer(i, "3d"), 500)) =>
            /\ pc[i] = "rejected"
            /\ returned[i] = <<>>
            /\ thrown[i] # <<>>
            /\ 500 \in thrown[i][1].status
            /\ PngOf(i) \in DOMAIN files
            /\ files[PngOf(i)] = Answer(i, "image").response[1].data
            /\ \A k \in 1..Len(writes[i]) : writes[i][k].path # GlbOf(i)
            /\ Len(writes[i]) = 1

\* C1 witness: a 3D request that axios resolved with status 500, after the
\* optimizer and the image stage succeeded
C1_Witness ==
    \E i \in Calls :
        /\ variant = 1
        /\ Answered(i, "3d")
        /\ Answer(i, "3d").resolved
        /\ HasStatus(Answer(i, "3d"), 500)
        /\ pc[i] = "rejected"
        /\ files[PngOf(i)] = "png-Y"

\* C2: when the image endpoint answers with a status other than 200,
\* generateImage rejects, the invocation writes no file and never requests
\* the 3D endpoint.
C2_ImageFailureWritesNothing ==
    \A i \in Calls :
        (Answered(i, "image") /\ Failed(Answer(i, "image"))) =>
            /\ pc[i] = "rejected"
            /\ returned[i] = <<>>
            /\ thrown[i] # <<>>
            /\ writes[i] = <<>>
            /\ inputImagePath[i] = <<>>
            /\ ~Requested(i, "3d")

\* C2 witness: an image request answered 204, which axios resolves with
C2_Witness ==
    \E i \in Calls :
        /\ Answered(i, "image")
        /\ Answer(i, "image").resolved
        /\ HasStatus(Answer(i, "image"), 204)
        /\ pc[i] = "rejected"

\* C3: when every endpoint answers 200 the invocation resolves; both files
\* are on disk then, the .png with the image endpoint's bytes and the .glb
\* with the 3D endpoint's, and the value returned is the path of the .glb.
C3_SuccessWritesBoth ==
    \A i \in Calls :
        /\ pc[i] = "rejected" => ~HasStatus(resps[i][Len(resps[i])], 200)
        /\ (Answered(i, "3d") /\ HasStatus(Answer(i, "3d"), 200)) =>
               /\ pc[i] = "resolved"
               /\ thrown[i] = <<>>
               /\ {PngOf(i), GlbOf(i)} \subseteq DOMAIN files
               /\ files[PngOf(i)] = Answer(i, "image").response[1].data
               /\ files[GlbOf(i)] = Answer(i, "3d").response[1].data
               /\ returned[i] = <<GlbOf(i)>>
               /\ returned[i] # <<PngOf(i)>>

\* C3 witness: a resolved invocation of the variant with the optimizer, for
\* the prompt that is longer than a file name
C3_Witness ==
    \E i \in Calls :
        /\ variant = 1
        /\ pc[i] = "resolved"
        /\ Len(prompt[i]) > 20
        /\ Len(resps[i]) = 3
        /\ \A k \in 1..3 : HasStatus(resps[i][k], 200)
        /\ files[GlbOf(i)] = "glb-Y"

\* the endpoints of the requests made so far, in order
Endpoints(i) == [k \in 1..Len(reqs[i]) |-> reqs[i][k].endpoint]

\* the stages of the variant that runs, in order
Stages == IF variant = 1 THEN <<"chat", "image", "3d">> ELSE <<"image", "3d">>

\* the number of 200 answers of the two endpoints whose answer is written
Written(i) ==
    Cardinality({ k \in 1..Len(resps[i]) :
                    /\ reqs[i][k].endpoint \in {"image", "3d"}
                    /\ HasStatus(resps[i][k], 200) })

\* C4: the stages of an invocation run in the order chat completion (where
\* present), image generation, 3D generation, each endpoint requested at
\* most once; a request is made only when the one before has settled, the
\* image request only after the optimizer returned a prompt, the 3D request
\* only after the .png was written; after the first failing stage there is
\* no further request and no further file.
C4_StagesInOrder ==
    \A i \in Calls :
        /\ Len(reqs[i]) <= Len(Stages)
        /\ Endpoints(i) = SubSeq(Stages, 1, Len(reqs[i]))
        /\ Len(resps[i]) <= Len(reqs[i])
        /\ Len(reqs[i]) <= Len(resps[i]) + 1
        /\ (variant = 1 /\ Requested(i, "image")) =>
               /\ Answered(i, "chat")
               /\ HasStatus(Answer(i, "chat"), 200)
               /\ optimizedPrompt[i] # <<>>
        /\ Requested(i, "3d") =>
               /\ Answered(i, "image")
               /\ writes[i] # <<>>
               /\ writes[i][1].path = PngOf(i)
               /\ PngOf(i) \in DOMAIN files
        /\ \A k \in 1..Len(resps[i]) :
               ~HasStatus(resps[i][k], 200) =>
                   /\ pc[i] = "rejected"
                   /\ Len(reqs[i]) = k
                   /\ Len(resps[i]) = k
        /\ Len(writes[i]) = Written(i)

\* C4 witness: the image stage of the variant with the optimizer failed, and
\* the invocation stopped there
C4_Witness ==
    \E i \in Calls :
        /\ variant = 1
        /\ pc[i] = "rejected"
        /\ Endpoints(i) = <<"chat", "image">>
        /\ Failed(resps[i][2])
        /\ writes[i] = <<>>

\* C5 as stated: at every stage, a response with a status other than 200
\* makes the stage fail with a generic error whose message carries the
\* status and the body text.  (Stated for the responses that reach the
\* stage's own status test.)
C5_Original ==
    \A i \in Calls : \A k \in 1..Len(resps[i]) :
        (resps[i][k].resolved /\ Failed(resps[i][k])) =>
            /\ thrown[i] # <<>>
            /\ thrown[i][1].name = "Error"
            /\ resps[i][k].response[1].status \in thrown[i][1].status
            /\ resps[i][k].response[1].data \in thrown[i][1].body

\* C5 amended: a response with a status other than 200 that axios.post
\* resolves with makes the image stage and the 3D stage fail with an Error
\* whose message carries the status and the body text; optimizePrompt only
\* logs the status and fails with an Error whose message is the body's
\* error.message, or "Unknown error occurred" when that is empty, or with a
\* TypeError when the body has no error object.
C5_Amended ==
    \A i \in Calls : \A k \in 1..Len(resps[i]) :
        (resps[i][k].resolved /\ Failed(resps[i][k])) =>
            LET r == resps[i][k].response[1]
                e == thrown[i][1]
            IN  /\ thrown[i] # <<>>
                /\ reqs[i][k].endpoint \in {"image", "3d"} =>
                       /\ e.name = "Error"
                       /\ e.status = {r.status}
                       /\ e.body = {r.data}
                       /\ e.text = (IF reqs[i][k].endpoint = "image"
                                    THEN "Image generation failed"
                                    ELSE "3D model generation failed")
                /\ reqs[i][k].endpoint = "chat" =>
                       /\ e.status = {}
                       /\ e.body = {}
                       /\ log[i][1].status = {r.status}
                       /\ r.data.error = <<>> => e.name = "TypeError"
                       /\ r.data.error # <<>> =>
                              /\ e.name = "Error"
                              /\ e.text = (IF r.data.error[1].message = ""
                                           THEN "Unknown error occurred"
                                           ELSE r.data.error[1].message)

\* C5 witness: a chat completion answered 500 with an error message
C5_Witness ==
    \E i \in Calls :
        /\ pc[i] = "rejected"
        /\ Endpoints(i) = <<"chat">>
        /\ resps[i][1].resolved
        /\ HasStatus(resps[i][1], 500)
        /\ thrown[i][1].text = "quota exceeded"

\* the labels of the catch blocks that printed, in order
Caught(i) ==
    LET at == { k \in 1..Len(log[i]) : log[i][k].error # <<>> }
        RECURSIVE Pick(_)
        Pick(k) == IF k > Len(log[i]) THEN <<>>
                   ELSE (IF k \in at THEN <<log[i][k].label>> ELSE <<>>) \o Pick(k + 1)
    IN  Pick(1)

\* every error a catch block printed is the error the invocation rejected with
SameError(i) ==
    /\ thrown[i] # <<>>
    /\ \A k \in 1..Len(log[i]) : log[i][k].error # <<>> => log[i][k].error = thrown[i]

\* the stage functions between a failing request and the caller
PathFrom(ep) ==
    CASE ep = "chat" -> <<"Error optimizing prompt:", "Error generating image:",
                          "Error generating 3D model:">>
      [] ep = "image" -> <<"Error generating image:", "Error generating 3D model:">>
      [] ep = "3d" -> <<"Error generating 3D model:">>

\* C6 as stated: whichever stage fails, every stage function between the
\* failure and the caller catches the error, logs it and rethrows it, so the
\* invocation rejects with exactly the error raised at the failing stage.
C6_Original ==
    \A i \in Calls :
        pc[i] = "rejected" =>
            /\ SameError(i)
            /\ Caught(i) = PathFrom(reqs[i][Len(reqs[i])].endpoint)

\* C6 amended: a failure of the image or the 3D request is caught, logged and
\* rethrown by every stage function between it and the caller; a failure of
\* the optimizer is caught, logged and rethrown by optimizePrompt and by
\* generate3DModel only, and passes through generateImage, which calls the
\* optimizer outside its try block; in every case the invocation rejects with
\* exactly the error raised at the failing stage.
C6_Amended ==
    \A i \in Calls :
        pc[i] = "rejected" =>
            /\ SameError(i)
            /\ Caught(i) =
                   (IF reqs[i][Len(reqs[i])].endpoint = "chat"
                    THEN <<"Error optimizing prompt:", "Error generating 3D model:">>
                    ELSE PathFrom(reqs[i][Len(reqs[i])].endpoint))
            /\ thrown[i][1].name = "AxiosError" <=> ~resps[i][Len(resps[i])].resolved

\* C6 witness: the optimizer's request found no server
C6_Witness ==
    \E i \in Calls :
        /\ pc[i] = "rejected"
        /\ Endpoints(i) = <<"chat">>
        /\ resps[i][1] = NoResponse
        /\ Len(log[i]) = 2
        /\ thrown[i][1].text = "Network Error"

\* a path without its last four characters, and those four
Stem(path) == SubSeq(path, 1, Len(path) - 4)
Ext(path) == SubSeq(path, Len(path) - 3, Len(path))

\* C8: the two paths an invocation writes are made from the caller's prompt
\* alone and share the stem gen_<name>; invocations with the same prompt
\* write the same paths, and a write replaces what an earlier invocation
\* left there.
C8_PathsFromPrompt ==
    /\ \A i \in Calls :
        /\ Len(writes[i]) <= 2
        /\ Len(writes[i]) >= 1 =>
               /\ writes[i][1].path = PngOf(i)
               /\ inputImagePath[i] = <<PngOf(i)>>
               /\ Stem(writes[i][1].path) = <<"g", "e", "n", "_">> \o sanitizeFileName(prompt[i])
        /\ Len(writes[i]) = 2 =>
               /\ Ext(writes[i][1].path) = <<".", "p", "n", "g">>
               /\ Ext(writes[i][2].path) = <<".", "g", "l", "b">>
               /\ Stem(writes[i][2].path) = Stem(writes[i][1].path)
        /\ \A k \in 1..Len(writes[i]) :
               /\ files[writes[i][k].path] = writes[i][k].data
               /\ author[writes[i][k].path] = prompt[i]
    /\ \A q1 \in DOMAIN files : \A q2 \in DOMAIN files :
           (author[q1] = author[q2] /\ Ext(q1) = Ext(q2)) => q1 = q2

\* C8 witness: an invocation has replaced both files of an earlier invocation
\* with the same prompt by other bytes
C8_Witness ==
    \E i \in Calls :
        /\ Len(writes[i]) = 2
        /\ prompt[i][1] \in WhiteSpace
        /\ \A k \in 1..2 :
               /\ writes[i][k].replaced # <<>>
               /\ writes[i][k].replaced[1].by = prompt[i]
               /\ writes[i][k].replaced[1].data # writes[i][k].data

\* C9: on a chat completion answered 200, optimizePrompt returns the content
\* of the first choice's message without its leading and trailing white
\* space, and that string is the prompt field sent to the image endpoint.
C9_TrimmedContent ==
    \A i \in Calls :
        (Answered(i, "chat") /\ HasStatus(Answer(i, "chat"), 200)) =>
            LET content == Answer(i, "chat").response[1].data.choices[1].message.content
            IN  /\ optimizedPrompt[i] = <<Trimmed(content)>>
                /\ Len(reqs[i]) >= 2
                /\ reqs[i][2].endpoint = "image"
                /\ reqs[i][2].prompt = Trimmed(content)

\* C9 witness: a content with white space at both ends went to the image
\* endpoint trimmed
C9_Witness ==
    \E i \in Calls :
        /\ Answered(i, "chat")
        /\ HasStatus(Answer(i, "chat"), 200)
        /\ Requested(i, "image")
        /\ Len(optimizedPrompt[i][1]) + 4 =
               Len(Answer(i, "chat").response[1].data.choices[1].message.content)

\* C10: the image an invocation uploads to the 3D endpoint is the bytes this
\* invocation received from the image endpoint, whatever the interleaving of
\* overlapping invocations.
C10_UploadsOwnImage ==
    \A i \in Calls :
        uploaded[i] # <<>> => uploaded[i][1] = Answer(i, "image").response[1].data

====
